---- MODULE Spec2Model ----
(***************************************************************************)
(* A model of django_pgjson/fields.py: the JsonField / JsonBField field    *)
(* descriptors, the JsonAdapter and the json codec they call.              *)
(*                                                                         *)
(* Python values are tagged records (a type name t and the payload);       *)
(* text is a sequence of one-character strings, so that encoding, parsing  *)
(* and splitting are computed character by character.                      *)
(***************************************************************************)
EXTENDS Integers, Sequences, FiniteSets, TLC

\* ------------------------------------------------------------------ bounds
MaxStrLen == 3
MaxListLen == 2
MaxInt == 2
MaxNameLen == 5
MaxMinor == 5
MaxPatch == 1

\* ------------------------------------------------------- program constants
JsonMinVersion == 90200
JsonBMinVersion == 90400

\* ------------------------------------------------------------------- text
Digits == <<"0", "1", "2", "3", "4", "5", "6", "7", "8", "9">>

DigitChars == {Digits[i] : i \in 1..10}

DigitVal(c) == CHOOSE d \in 0..9 : Digits[d + 1] = c

\* The characters texts are enumerated over, and their ASCII codes.
Sigma == {"1", "a", "\"", "\\", "[", "]", ",", " "}

Code(c) ==
  CASE c = " " -> 32 [] c = "\"" -> 34 [] c = "'" -> 39 [] c = "," -> 44
    [] c = "-" -> 45 [] c = "." -> 46 [] c = "/" -> 47
    [] c \in DigitChars -> 48 + DigitVal(c)
    [] c = ":" -> 58 [] c = "[" -> 91 [] c = "\\" -> 92 [] c = "]" -> 93
    [] c = "_" -> 95
    [] c = "a" -> 97 [] c = "b" -> 98 [] c = "e" -> 101 [] c = "f" -> 102
    [] c = "l" -> 108 [] c = "n" -> 110 [] c = "o" -> 111 [] c = "r" -> 114
    [] c = "s" -> 115 [] c = "t" -> 116 [] c = "u" -> 117 [] c = "x" -> 120
    [] c = "{" -> 123 [] c = "}" -> 125

SeqsUpTo(S, n) == UNION {[1..k -> S] : k \in 0..n}

StartsWith(s, i, w) ==
  /\ i + Len(w) - 1 <= Len(s)
  /\ SubSeq(s, i, i + Len(w) - 1) = w

\* Unicode code point order on texts (Python's str.__lt__).
RECURSIVE StrLess(_, _)
StrLess(a, b) ==
  IF b = <<>> THEN FALSE
  ELSE IF a = <<>> THEN TRUE
  ELSE IF Code(Head(a)) # Code(Head(b)) THEN Code(Head(a)) < Code(Head(b))
  ELSE StrLess(Tail(a), Tail(b))

\* ---------------------------------------------------------- Python values
PyNone == [t |-> "NoneType"]

PyBool(b) == [t |-> "bool", b |-> b]

PyInt(n) == [t |-> "int", n |-> n]

\* A float neg i.f, its fraction the sequence of its decimal digits.
PyFloat(neg, i, f) == [t |-> "float", neg |-> neg, i |-> i, f |-> f]

PyStr(s) == [t |-> "str", s |-> s]

PyList(xs) == [t |-> "list", items |-> xs]

PyTuple(xs) == [t |-> "tuple", items |-> xs]

\* A dict is the sequence of its <<key, value>> items in insertion order.
PyDict(items) == [t |-> "dict", pairs |-> items]

\* django.utils.functional.Promise: a lazy proxy of its value.
PyPromise(x) == [t |-> "Promise", lazy |-> x]

\* What a call that raised returns.
NoValue == [t |-> "NoValue"]

Returned(x) == [exc |-> "none", value |-> x]

Raised(e) == [exc |-> e, value |-> NoValue]

\* value is None
IsNone(value) == value.t = "NoneType"

\* isinstance(value, six.string_types)
IsString(value) == value.t = "str"

\* isinstance(value, six.integer_types): bool is a subclass of int.
IsInteger(value) == value.t \in {"int", "bool"}

RECURSIVE NatStr(_)
NatStr(n) ==
  IF n < 10 THEN <<Digits[n + 1]>>
  ELSE NatStr(n \div 10) \o <<Digits[(n % 10) + 1]>>

IntStr(n) == IF n < 0 THEN <<"-">> \o NatStr(-n) ELSE NatStr(n)

FloatStr(x) ==
  (IF x.neg THEN <<"-">> ELSE <<>>) \o NatStr(x.i) \o <<".">>
    \o [k \in 1..Len(x.f) |-> Digits[x.f[k] + 1]]

\* str(v), for the scalar types.
str(v) ==
  CASE v.t = "str" -> v.s
    [] v.t = "int" -> IntStr(v.n)
    [] v.t = "bool" -> IF v.b THEN <<"T", "r", "u", "e">>
                       ELSE <<"F", "a", "l", "s", "e">>
    [] v.t = "float" -> FloatStr(v)
    [] v.t = "NoneType" -> <<"N", "o", "n", "e">>

\* "%s" % v: a tuple on the right of % is the argument list.
PercentS(v) ==
  IF v.t = "tuple"
  THEN IF Len(v.items) = 1 THEN Returned(str(v.items[1])) ELSE Raised("TypeError")
  ELSE Returned(str(v))

\* iter(value): the elements a for loop visits, or TypeError.
Iterate(value) ==
  CASE value.t \in {"list", "tuple"} -> Returned(value.items)
    [] value.t = "dict" ->
         Returned([k \in 1..Len(value.pairs) |-> PyStr(value.pairs[k][1])])
    [] value.t = "str" ->
         Returned([k \in 1..Len(value.s) |-> PyStr(<<value.s[k]>>)])
    [] OTHER -> Raised("TypeError")

\* A construct of the codec that no text of the model can spell (evaluating it
\* stops the check rather than guessing a result).
Unmodelled == CHOOSE x \in {} : TRUE

\* ------------------------------------------------------------- json.dumps
\* The keyword options json.dumps is called with: {} or {"sort_keys": True}.
\* The separators are the defaults, (", ", ": ").
DefaultOptions == [sort_keys |-> FALSE]

OptionSets == [sort_keys : BOOLEAN]

RECURSIVE Flatten(_)
Flatten(ss) == IF ss = <<>> THEN <<>> ELSE Head(ss) \o Flatten(Tail(ss))

RECURSIVE Join(_, _)
Join(ss, sep) ==
  IF ss = <<>> THEN <<>>
  ELSE IF Len(ss) = 1 THEN ss[1]
  ELSE ss[1] \o sep \o Join(Tail(ss), sep)

\* encode_basestring: the quoted text, with " and \ escaped.
EncodeStr(s) ==
  <<"\"">>
    \o Flatten([k \in 1..Len(s) |->
                  IF s[k] \in {"\"", "\\"} THEN <<"\\", s[k]>> ELSE <<s[k]>>])
    \o <<"\"">>

RECURSIVE InsertItem(_, _)
InsertItem(sorted, item) ==
  IF sorted = <<>> THEN <<item>>
  ELSE IF StrLess(item[1], Head(sorted)[1]) THEN <<item>> \o sorted
  ELSE <<Head(sorted)>> \o InsertItem(Tail(sorted), item)

RECURSIVE SortItems(_)
SortItems(items) ==
  IF items = <<>> THEN <<>>
  ELSE InsertItem(SortItems(SubSeq(items, 1, Len(items) - 1)), items[Len(items)])

\* Whether the encoder has an encoding for obj (a Promise has none).
RECURSIVE Serializable(_)
Serializable(obj) ==
  CASE obj.t \in {"list", "tuple"} ->
         \A k \in 1..Len(obj.items) : Serializable(obj.items[k])
    [] obj.t = "dict" -> \A k \in 1..Len(obj.pairs) : Serializable(obj.pairs[k][2])
    [] obj.t = "Promise" -> FALSE
    [] OTHER -> TRUE

RECURSIVE Encode(_, _)
Encode(obj, o) ==
  LET item_sep == <<",", " ">>
      key_sep == <<":", " ">>
  IN CASE obj.t = "NoneType" -> <<"n", "u", "l", "l">>
       [] obj.t = "bool" -> IF obj.b THEN <<"t", "r", "u", "e">>
                            ELSE <<"f", "a", "l", "s", "e">>
       [] obj.t = "int" -> IntStr(obj.n)
       [] obj.t = "float" -> FloatStr(obj)
       [] obj.t = "str" -> EncodeStr(obj.s)
       [] obj.t \in {"list", "tuple"} ->
            <<"[">>
              \o Join([k \in 1..Len(obj.items) |-> Encode(obj.items[k], o)], item_sep)
              \o <<"]">>
       [] obj.t = "dict" ->
            LET items == IF o.sort_keys THEN SortItems(obj.pairs) ELSE obj.pairs
            IN <<"{">>
                 \o Join([k \in 1..Len(items) |->
                            EncodeStr(items[k][1]) \o key_sep
                              \o Encode(items[k][2], o)], item_sep)
                 \o <<"}">>

\* json.dumps(obj, cls=get_encoder_class(), **options)
json_dumps(obj, options) ==
  IF Serializable(obj) THEN Returned(PyStr(Encode(obj, options)))
  ELSE Raised("TypeError")

\* ------------------------------------------------------------- json.loads
Fail == [ok |-> FALSE, val |-> NoValue, pos |-> 0]

Ok(val, pos) == [ok |-> TRUE, val |-> val, pos |-> pos]

At(s, i) == IF i <= Len(s) THEN s[i] ELSE "<EOF>"

RECURSIVE SkipWs(_, _)
SkipWs(s, i) == IF At(s, i) = " " THEN SkipWs(s, i + 1) ELSE i

RECURSIVE DigitsEnd(_, _)
DigitsEnd(s, i) == IF At(s, i) \in DigitChars THEN DigitsEnd(s, i + 1) ELSE i

RECURSIVE NatOf(_)
NatOf(ds) ==
  IF ds = <<>> THEN 0
  ELSE 10 * NatOf(SubSeq(ds, 1, Len(ds) - 1)) + DigitVal(ds[Len(ds)])

RECURSIVE StripZeros(_)
StripZeros(f) ==
  IF Len(f) > 1 /\ f[Len(f)] = 0 THEN StripZeros(SubSeq(f, 1, Len(f) - 1))
  ELSE f

\* NUMBER_RE = (-?(?:0|[1-9]\d*))(\.\d+)?([eE][-+]?\d+)? at s[i].
ScanNumber(s, i) ==
  LET neg == At(s, i) = "-"
      j == IF neg THEN i + 1 ELSE i
      intEnd == IF At(s, j) = "0" THEN j + 1 ELSE DigitsEnd(s, j)
      hasFrac == At(s, intEnd) = "." /\ At(s, intEnd + 1) \in DigitChars
      fracEnd == IF hasFrac THEN DigitsEnd(s, intEnd + 1) ELSE intEnd
      k == IF At(s, fracEnd + 1) \in {"-", "+"} THEN fracEnd + 2
           ELSE fracEnd + 1
      hasExp == At(s, fracEnd) \in {"e", "E"} /\ At(s, k) \in DigitChars
      n == NatOf(SubSeq(s, j, intEnd - 1))
  IN IF At(s, j) \notin DigitChars THEN Fail
     ELSE IF hasExp THEN Unmodelled
     ELSE IF hasFrac
     THEN Ok(PyFloat(neg, n,
                     StripZeros([d \in 1..(fracEnd - intEnd - 1) |->
                                   DigitVal(s[intEnd + d])])),
             fracEnd)
     ELSE Ok(PyInt(IF neg THEN -n ELSE n), intEnd)

\* py_scanstring: s[i] follows the opening quote.
RECURSIVE ScanString(_, _, _)
ScanString(s, i, acc) ==
  LET c == At(s, i)
      e == At(s, i + 1)
  IN CASE c = "<EOF>" -> Fail
       [] c = "\"" -> Ok(PyStr(acc), i + 1)
       [] c = "\\" ->
            (CASE e \in {"\"", "\\", "/"} ->
                    ScanString(s, i + 2, Append(acc, e))
               [] e = "b" -> ScanString(s, i + 2, Append(acc, "<BS>"))
               [] e = "f" -> ScanString(s, i + 2, Append(acc, "<FF>"))
               [] e = "n" -> ScanString(s, i + 2, Append(acc, "<LF>"))
               [] e = "r" -> ScanString(s, i + 2, Append(acc, "<CR>"))
               [] e = "t" -> ScanString(s, i + 2, Append(acc, "<TAB>"))
               [] e = "u" -> Unmodelled
               [] OTHER -> Fail)
       [] OTHER -> ScanString(s, i + 1, Append(acc, c))

\* dict(pairs): a repeated key keeps its place and takes the later value.
DictSet(items, key, val) ==
  IF \E k \in 1..Len(items) : items[k][1] = key
  THEN [k \in 1..Len(items) |->
          IF items[k][1] = key THEN <<key, val>> ELSE items[k]]
  ELSE Append(items, <<key, val>>)

RECURSIVE ScanOnce(_, _)
RECURSIVE ArrayItems(_, _, _)
RECURSIVE ObjectItems(_, _, _)

\* JSONArray's loop: s[i] starts an element, acc holds the elements so far.
ArrayItems(s, i, acc) ==
  LET r == ScanOnce(s, i)
      j == SkipWs(s, r.pos)
  IN IF ~r.ok THEN Fail
     ELSE IF At(s, j) = "]" THEN Ok(PyList(Append(acc, r.val)), j + 1)
     ELSE IF At(s, j) = "," THEN ArrayItems(s, SkipWs(s, j + 1), Append(acc, r.val))
     ELSE Fail

\* JSONObject's loop: s[i] follows the quote opening a key.
ObjectItems(s, i, acc) ==
  LET key == ScanString(s, i, <<>>)
      c == SkipWs(s, key.pos)
      r == ScanOnce(s, SkipWs(s, c + 1))
      j == SkipWs(s, r.pos)
      n == SkipWs(s, j + 1)
  IN IF ~key.ok \/ At(s, c) # ":" THEN Fail
     ELSE IF ~r.ok THEN Fail
     ELSE IF At(s, j) = "}"
     THEN Ok(PyDict(DictSet(acc, key.val.s, r.val)), j + 1)
     ELSE IF At(s, j) = "," /\ At(s, n) = "\""
     THEN ObjectItems(s, n + 1, DictSet(acc, key.val.s, r.val))
     ELSE Fail

\* scanner.py_make_scanner's _scan_once.
ScanOnce(s, i) ==
  LET c == At(s, i)
  IN CASE c = "\"" -> ScanString(s, i + 1, <<>>)
       [] c = "{" ->
            LET j == SkipWs(s, i + 1)
            IN IF At(s, j) = "}" THEN Ok(PyDict(<<>>), j + 1)
               ELSE IF At(s, j) = "\"" THEN ObjectItems(s, j + 1, <<>>)
               ELSE Fail
       [] c = "[" ->
            LET j == SkipWs(s, i + 1)
            IN IF At(s, j) = "]" THEN Ok(PyList(<<>>), j + 1)
               ELSE ArrayItems(s, j, <<>>)
       [] c = "n" ->
            IF StartsWith(s, i, <<"n", "u", "l", "l">>) THEN Ok(PyNone, i + 4)
            ELSE Fail
       [] c = "t" ->
            IF StartsWith(s, i, <<"t", "r", "u", "e">>)
            THEN Ok(PyBool(TRUE), i + 4) ELSE Fail
       [] c = "f" ->
            IF StartsWith(s, i, <<"f", "a", "l", "s", "e">>)
            THEN Ok(PyBool(FALSE), i + 5) ELSE Fail
       [] OTHER -> ScanNumber(s, i)

\* json.loads(s): JSONDecoder.decode, ValueError on a text that is no JSON
\* document or has extra data after one.
json_loads(s) ==
  LET r == ScanOnce(s, SkipWs(s, 1))
  IN IF r.ok /\ SkipWs(s, r.pos) = Len(s) + 1 THEN Returned(r.val)
     ELSE Raised("ValueError")

\* Python's ==, with no coercion between types: dicts compare by their
\* items whatever the order, sequences element by element.
RECURSIVE PyEq(_, _)
PyEq(a, b) ==
  IF a.t # b.t THEN FALSE
  ELSE CASE a.t = "dict" ->
              /\ Len(a.pairs) = Len(b.pairs)
              /\ \A k \in 1..Len(a.pairs) : \E j \in 1..Len(b.pairs) :
                   a.pairs[k][1] = b.pairs[j][1] /\ PyEq(a.pairs[k][2], b.pairs[j][2])
         [] a.t \in {"list", "tuple"} ->
              /\ Len(a.items) = Len(b.items)
              /\ \A k \in 1..Len(a.items) : PyEq(a.items[k], b.items[k])
         [] OTHER -> a = b

\* ------------------------------------------------------------ JsonAdapter
\* psycopg2.extras.Json.__init__: the adapter keeps the object it wraps.
JsonAdapter(value) == [t |-> "JsonAdapter", adapted |-> value]

\* JsonAdapter.dumps: no field options reach the adapter.
JsonAdapter_dumps(obj) == json_dumps(obj, DefaultOptions)

\* -------------------------------------------------------------- JsonField
\* Faulty variant: the minimum version itself is refused.
JsonField_db_type_le(version) ==
  IF version <= JsonMinVersion THEN Raised("RuntimeError")
  ELSE Returned(PyStr(<<"j", "s", "o", "n">>))

\* get_version(connection), compared with the minimum of the json type.
JsonField_db_type(version) ==
  IF version < JsonMinVersion THEN Raised("RuntimeError")
  ELSE Returned(PyStr(<<"j", "s", "o", "n">>))

\* Faulty variant: jsonb is checked against the minimum of json.
JsonBField_db_type_json_min(version) ==
  IF version < JsonMinVersion THEN Raised("RuntimeError")
  ELSE Returned(PyStr(<<"j", "s", "o", "n", "b">>))

JsonBField_db_type(version) ==
  IF version < JsonBMinVersion THEN Raised("RuntimeError")
  ELSE Returned(PyStr(<<"j", "s", "o", "n", "b">>))

\* Method resolution: JsonBField overrides db_type.
db_type(f, version) ==
  IF f.cls = "JsonBField" THEN JsonBField_db_type(version)
  ELSE JsonField_db_type(version)

\* Faulty variant: no except clause, the ValueError of json.loads propagates.
to_python_strict(value) ==
  IF IsString(value) THEN json_loads(value.s) ELSE Returned(value)

\* try: json.loads(value) / except ValueError: pass
to_python(value) ==
  IF IsString(value)
  THEN LET r == json_loads(value.s)
       IN IF r.exc = "ValueError" THEN Returned(value) ELSE r
  ELSE Returned(value)

\* models.Field.get_prep_value: a lazy Promise is cast to its value.
get_prep_value(value) == IF value.t = "Promise" THEN value.lazy ELSE value

\* models.Field.get_db_prep_value, the hook super() reaches.
Field_get_db_prep_value(value, prepared) ==
  IF prepared THEN value ELSE get_prep_value(value)

\* Faulty variant: None passes through whatever the field's null.
get_db_prep_value_any_null(f, value, prepared) ==
  LET prepped == Field_get_db_prep_value(value, prepared)
  IN IF IsNone(prepped) THEN Returned(PyNone)
     ELSE Returned(JsonAdapter(prepped))

get_db_prep_value(f, value, prepared) ==
  LET prepped == Field_get_db_prep_value(value, prepared)
  IN IF f.null /\ IsNone(prepped) THEN Returned(PyNone)
     ELSE Returned(JsonAdapter(prepped))

\* value_to_string, of the value _get_val_from_obj reads from the instance.
value_to_string(f, value) == json_dumps(get_prep_value(value), f.options)

\* The characters lookup names are spelled with, and those that \w matches.
NameChars == {"a", "t", "_", "-", "f", "o", "0", "e", "x", "c"}

WordChars == NameChars \ {"-"}

\* re.match("at_\w+", name): the pattern is anchored at the start only.
re_match(name) ==
  /\ Len(name) >= 4
  /\ SubSeq(name, 1, 3) = <<"a", "t", "_">>
  /\ name[4] \in WordChars

\* Faulty variant: name.split(sep, 1)[1] read as the text up to the second sep.
split1_short(name, sep) ==
  IF \E i \in 1..Len(name) : name[i] = sep
  THEN LET i == CHOOSE i \in 1..Len(name) :
                  name[i] = sep /\ \A j \in 1..(i - 1) : name[j] # sep
           rest == SubSeq(name, i + 1, Len(name))
           n == IF \E j \in 1..Len(rest) : rest[j] = sep
                THEN (CHOOSE j \in 1..Len(rest) :
                        rest[j] = sep /\ \A k \in 1..(j - 1) : rest[k] # sep) - 1
                ELSE Len(rest)
       IN <<SubSeq(name, 1, i - 1), SubSeq(rest, 1, n)>>
  ELSE <<name>>

\* name.split(sep, 1): at most one split, at the first sep.
split1(name, sep) ==
  IF \E i \in 1..Len(name) : name[i] = sep
  THEN LET i == CHOOSE i \in 1..Len(name) :
                  name[i] = sep /\ \A j \in 1..(i - 1) : name[j] # sep
       IN <<SubSeq(name, 1, i - 1), SubSeq(name, i + 1, Len(name))>>
  ELSE <<name>>

\* lookups.KeyTransformFactory(key, field): the factory keeps the key and the
\* field it is built with.
KeyTransformFactory(key, f) ==
  [t |-> "KeyTransformFactory", key |-> key, field |-> f]

\* framework is what models.Field.get_transform(name) returned.
get_transform(f, name, framework) ==
  LET parts == split1(name, "_")
  IN IF ~IsNone(framework) THEN Returned(framework)
     ELSE IF ~re_match(name) THEN Returned(PyNone)
     ELSE IF Len(parts) # 2 THEN Raised("ValueError")
     ELSE Returned(KeyTransformFactory(parts[2], f))

\* ------------------------------------------------------------- JsonBField
\* ["%s" % v for v in value]
FormatAll(value) ==
  LET it == Iterate(value)
      fmt == [k \in 1..Len(it.value) |-> PercentS(it.value[k])]
  IN IF it.exc # "none" THEN Raised("TypeError")
     ELSE IF \E k \in 1..Len(fmt) : fmt[k].exc # "none" THEN Raised("TypeError")
     ELSE Returned(PyList([k \in 1..Len(fmt) |-> PyStr(fmt[k].value)]))

\* Faulty variant: jcontains encodes a string as well.
get_prep_lookup_reencode(f, lookup_type, value) ==
  LET dumped == IF lookup_type \in {"jcontains"}
                THEN json_dumps(value, f.options)
                ELSE Returned(value)
      v == dumped.value
  IN IF dumped.exc # "none" THEN dumped
     ELSE IF lookup_type \in {"jhas_any", "jhas_all"}
     THEN FormatAll(IF IsString(v) THEN PyList(<<v>>) ELSE v)
     ELSE IF lookup_type \in {"jhas"} /\ ~IsString(v)
     THEN IF IsInteger(v) THEN Returned(PyStr(str(v)))
          ELSE Raised("TypeError")
     ELSE Returned(v)

\* Faulty variant: the str-or-int check runs for every lookup type but jhas_any and
\* jhas_all.
get_prep_lookup_check_all(f, lookup_type, value) ==
  LET dumped == IF lookup_type \in {"jcontains"} /\ ~IsString(value)
                THEN json_dumps(value, f.options)
                ELSE Returned(value)
      v == dumped.value
  IN IF dumped.exc # "none" THEN dumped
     ELSE IF lookup_type \in {"jhas_any", "jhas_all"}
     THEN FormatAll(IF IsString(v) THEN PyList(<<v>>) ELSE v)
     ELSE IF ~IsString(v)
     THEN IF IsInteger(v) THEN Returned(PyStr(str(v)))
          ELSE Raised("TypeError")
     ELSE Returned(v)

get_prep_lookup(f, lookup_type, value) ==
  LET dumped == IF lookup_type \in {"jcontains"} /\ ~IsString(value)
                THEN json_dumps(value, f.options)
                ELSE Returned(value)
      v == dumped.value
  IN IF dumped.exc # "none" THEN dumped
     ELSE IF lookup_type \in {"jhas_any", "jhas_all"}
     THEN FormatAll(IF IsString(v) THEN PyList(<<v>>) ELSE v)
     ELSE IF lookup_type \in {"jhas"} /\ ~IsString(v)
     THEN IF IsInteger(v) THEN Returned(PyStr(str(v)))
          ELSE Raised("TypeError")
     ELSE Returned(v)

\* ------------------------------------------------------- the input sets
NamedTexts ==
  { <<"{", "\"", "a", "\"", ":", " ", "1", "}">>,
    <<"{", "a", ":", "1", "}">>,
    <<"n", "u", "l", "l">>,
    <<"t", "r", "u", "e">>,
    <<"f", "o", "o">>,
    <<"x">>,
    <<"3", ".", "5">>,
    <<"-", "1">>,
    <<" ", "[", "1", ",", " ", "1", "]", " ">> }

Texts == SeqsUpTo(Sigma, MaxStrLen) \cup NamedTexts

ShortTexts == SeqsUpTo(Sigma, 1) \cup NamedTexts

Scalars ==
  {PyNone, PyBool(TRUE), PyBool(FALSE), PyFloat(FALSE, 3, <<5>>)}
    \cup {PyInt(n) : n \in -1..MaxInt}

Elements ==
  { PyStr(<<"a">>), PyInt(1), PyNone, PyBool(TRUE), PyFloat(FALSE, 3, <<5>>),
    PyTuple(<<PyInt(1)>>), PyTuple(<<PyInt(1), PyInt(1)>>) }

Lists == {PyList(xs) : xs \in SeqsUpTo(Elements, MaxListLen)}

Tuples == {PyTuple(xs) : xs \in SeqsUpTo({PyStr(<<"a">>), PyInt(1)}, MaxListLen)}

Keys == {<<"a">>, <<"b">>}

DictValues == {PyInt(1), PyStr(<<"x">>), PyList(<<PyInt(1)>>)}

UniqueKeys(d) ==
  \A i \in 1..Len(d.pairs) : \A j \in 1..Len(d.pairs) : d.pairs[i][1] = d.pairs[j][1] => i = j

AllDicts ==
  {PyDict(<<>>)}
    \cup {PyDict(<<<<k, x>>>>) : k \in Keys, x \in DictValues}
    \cup {PyDict(<<<<k1, x1>>, <<k2, x2>>>>) :
            k1 \in Keys, k2 \in Keys, x1 \in DictValues, x2 \in DictValues}

Dicts == {d \in AllDicts : UniqueKeys(d)}

Containers == Lists \cup Tuples \cup Dicts

\* The values a field is assigned, saved with and read as.
Values == {PyStr(s) : s \in Texts} \cup Scalars \cup Containers

\* The right-hand sides of a lookup.
LookupValues == {PyStr(s) : s \in ShortTexts} \cup Scalars \cup Containers

Promises == {PyPromise(PyNone), PyPromise(PyStr(<<"a">>))}

LookupTypes == {"jcontains", "jhas", "jhas_any", "jhas_all", "exact", "isnull"}

Names ==
  SeqsUpTo({"a", "t", "_", "-"}, MaxNameLen)
    \cup { <<"a", "t", "_", "f", "o", "o">>,
           <<"a", "t", "_", "f", "o", "o", "_", "0">>,
           <<"e", "x", "a", "c", "t">> }

\* What get_version(connection) reports: major * 10000 + minor * 100 + patch.
Versions ==
  {major * 10000 + minor * 100 + patch :
     major \in 8..10, minor \in 0..MaxMinor, patch \in (0..MaxPatch) \cup {99}}

\* A transform the framework has registered under a name.
FrameworkTransform(name) == [t |-> "Transform", name |-> name]

Fields == [cls : {"JsonField", "JsonBField"}, null : BOOLEAN, options : OptionSets]

\* ------------------------------------------------------------------ state
VARIABLES
  field,    \* the field instance: its class, null and _options
  pc,       \* idle, returned, prepped, stored, fetched
  call,     \* the method called and its arguments
  result,   \* what the call returned or raised
  prev,     \* the result of the call before, when a call is repeated
  row,      \* the column of the stored row
  obj       \* the attribute of the model instance read back

vars == <<field, pc, call, result, prev, row, obj>>

NoCall == [op |-> "none"]

NoRow == [stored |-> FALSE]

SqlNull == [stored |-> TRUE, null |-> TRUE]

SqlText(s) == [stored |-> TRUE, null |-> FALSE, text |-> s]

Init ==
  /\ field \in Fields
  /\ pc = "idle"
  /\ call = NoCall
  /\ result = Returned(NoValue)
  /\ prev = Returned(NoValue)
  /\ row = NoRow
  /\ obj = NoValue

Return(c, r) ==
  /\ call' = c
  /\ result' = r
  /\ pc' = "returned"
  /\ UNCHANGED <<field, prev, row, obj>>

DbType ==
  /\ pc = "idle"
  /\ \E version \in Versions :
       Return([op |-> "db_type", version |-> version], db_type(field, version))

ToPython ==
  /\ pc = "idle"
  /\ \E value \in Values :
       Return([op |-> "to_python", value |-> value], to_python(value))

ValueToString ==
  /\ pc = "idle"
  /\ \E value \in Values \cup Promises :
       Return([op |-> "value_to_string", value |-> value],
              value_to_string(field, value))

GetTransform ==
  /\ pc = "idle"
  /\ \E name \in Names :
       \E framework \in {PyNone, FrameworkTransform(name)} :
         Return([op |-> "get_transform", name |-> name, framework |-> framework],
                get_transform(field, name, framework))

GetPrepLookup ==
  /\ pc = "idle"
  /\ field.cls = "JsonBField"
  /\ \E lookup_type \in LookupTypes, value \in LookupValues :
       Return([op |-> "get_prep_lookup", lookup_type |-> lookup_type,
               value |-> value, again |-> FALSE],
              get_prep_lookup(field, lookup_type, value))

\* The value a get_prep_lookup call returned is prepared once more.
GetPrepLookupAgain ==
  /\ pc = "returned"
  /\ call.op = "get_prep_lookup"
  /\ ~call.again
  /\ result.exc = "none"
  /\ call' = [call EXCEPT !.value = result.value, !.again = TRUE]
  /\ prev' = result
  /\ result' = get_prep_lookup(field, call.lookup_type, result.value)
  /\ UNCHANGED <<field, pc, row, obj>>

\* A save reaches get_db_prep_value for the parameter of its statement.
GetDbPrepValue ==
  /\ pc = "idle"
  /\ \E value \in Values \cup Promises, prepared \in BOOLEAN :
       /\ call' = [op |-> "get_db_prep_value", value |-> value,
                   prepared |-> prepared]
       /\ result' = get_db_prep_value(field, value, prepared)
  /\ pc' = "prepped"
  /\ UNCHANGED <<field, prev, row, obj>>

\* What the column keeps of a JSON text: json keeps the text, jsonb the
\* value, which it writes back with its keys in order.
column_store(f, text) ==
  IF f.cls = "JsonBField"
  THEN Encode(json_loads(text).value, [sort_keys |-> TRUE])
  ELSE text

\* The statement runs: the driver writes None as NULL and asks a JsonAdapter
\* for its dumps.
Execute ==
  /\ pc = "prepped"
  /\ LET dumped == JsonAdapter_dumps(result.value.adapted)
     IN IF IsNone(result.value)
        THEN row' = SqlNull /\ pc' = "stored" /\ UNCHANGED result
        ELSE IF dumped.exc # "none"
        THEN row' = row /\ pc' = "returned" /\ result' = dumped
        ELSE /\ row' = SqlText(column_store(field, dumped.value.s))
             /\ pc' = "stored"
             /\ UNCHANGED result
  /\ UNCHANGED <<field, call, prev, obj>>

\* The row is read back: the registered typecaster (json.loads, NULL as None)
\* and then to_python, which SubfieldBase runs on every assignment.
Fetch ==
  /\ pc = "stored"
  /\ LET cast == IF row.null THEN Returned(PyNone) ELSE json_loads(row.text)
         read == IF cast.exc = "none" THEN to_python(cast.value) ELSE cast
     IN /\ result' = read
        /\ obj' = read.value
  /\ pc' = "fetched"
  /\ UNCHANGED <<field, call, prev, row>>

Next ==
  \/ DbType
  \/ ToPython
  \/ ValueToString
  \/ GetTransform
  \/ GetPrepLookup
  \/ GetPrepLookupAgain
  \/ GetDbPrepValue
  \/ Execute
  \/ Fetch

Spec == Init /\ [][Next]_vars

\* ----------------------------------------------------------------- claims
Called(op) == pc = "returned" /\ call.op = op

Text_json == <<"j", "s", "o", "n">>

Text_jsonb == <<"j", "s", "o", "n", "b">>

Text_a1 == <<"{", "\"", "a", "\"", ":", " ", "1", "}">>

Text_malformed == <<"{", "a", ":", "1", "}">>

Dict_a1 == PyDict(<<<<<<"a">>, PyInt(1)>>>>)

\* C1: JsonField.db_type fails with an error and returns no column type for
\* every server version below 9.2, and returns "json" for every version from
\* 9.2 on, 90200 included.
C1_JsonDbType ==
  (Called("db_type") /\ field.cls = "JsonField") =>
    IF call.version < 9 * 10000 + 2 * 100
    THEN result.exc = "RuntimeError" /\ result.value = NoValue
    ELSE result = Returned(PyStr(Text_json))

C1_Witness ==
  /\ Called("db_type") /\ field.cls = "JsonField"
  /\ call.version = 9 * 10000 + 2 * 100
  /\ result = Returned(PyStr(Text_json))

\* C2: JsonBField.db_type fails with an error for every server version below
\* 9.4, 9.2 and 9.3 included, and returns "jsonb" (never "json") for every
\* version from 9.4 on, 90400 included.
C2_JsonBDbType ==
  (Called("db_type") /\ field.cls = "JsonBField") =>
    IF call.version < 9 * 10000 + 4 * 100
    THEN result.exc = "RuntimeError" /\ result.value = NoValue
    ELSE result = Returned(PyStr(Text_jsonb)) /\ result.value.s # Text_json

C2_Witness ==
  /\ Called("db_type") /\ field.cls = "JsonBField"
  /\ call.version = 9 * 10000 + 3 * 100
  /\ result.exc = "RuntimeError"

FirstPrep(lookup_types) ==
  /\ Called("get_prep_lookup")
  /\ ~call.again
  /\ call.lookup_type \in lookup_types

\* C3: with lookup type jhas a string is returned unchanged, an integer as
\* its decimal string, and a value of any other type raises a type error: no
\* value that is neither a string nor an integer is coerced.
C3_JhasStrict ==
  FirstPrep({"jhas"}) =>
    CASE call.value.t = "str" -> result = Returned(call.value)
      [] call.value.t = "int" -> result = Returned(PyStr(IntStr(call.value.n)))
      [] OTHER -> result.exc = "TypeError" /\ result.value = NoValue

IsScalar(v) == v.t \in {"str", "int", "float", "bool", "NoneType"}

\* C4: with lookup type jhas_any or jhas_all the result is always a sequence
\* of strings: a single value, a string or another scalar such as an integer,
\* becomes the one-element sequence of its string form, and an iterable the
\* sequence, in order, of the string form of each element.
C4_HasAnySequence ==
  FirstPrep({"jhas_any", "jhas_all"}) =>
    /\ IsScalar(call.value) =>
         result = Returned(PyList(<<PyStr(str(call.value))>>))
    /\ (call.value.t \in {"list", "tuple"}
          /\ \A k \in 1..Len(call.value.items) : IsScalar(call.value.items[k])) =>
         result = Returned(PyList([k \in 1..Len(call.value.items) |->
                                     PyStr(str(call.value.items[k]))]))

\* C5: with lookup type jcontains a string is returned unchanged, not encoded
\* a second time, and any other value is returned as its JSON text, encoded
\* with the field's options: the result is always a string.
C5_ContainsEncodes ==
  FirstPrep({"jcontains"}) =>
    /\ result.exc = "none"
    /\ result.value.t = "str"
    /\ IsString(call.value) => result.value = call.value
    /\ ~IsString(call.value) =>
         result.value.s = Encode(call.value, field.options)
    /\ call.value = Dict_a1 => result.value.s = Text_a1

C5_Witness ==
  /\ FirstPrep({"jcontains"})
  /\ call.value = Dict_a1
  /\ result = Returned(PyStr(Text_a1))

\* C6: to_python never raises: a string that is valid JSON is returned as its
\* parsed value, a string that is not as the same string, and a value that is
\* no string unchanged.
C6_ToPythonPermissive ==
  Called("to_python") =>
    /\ result.exc = "none"
    /\ IF IsString(call.value)
       THEN IF json_loads(call.value.s).exc = "none"
            THEN result.value = json_loads(call.value.s).value
            ELSE result.value = call.value
       ELSE result.value = call.value
    /\ call.value = PyStr(Text_a1) => result.value = Dict_a1
    /\ call.value = PyStr(Text_malformed) => result.value = PyStr(Text_malformed)

C6_Witness ==
  /\ Called("to_python")
  /\ call.value = PyStr(Text_malformed)
  /\ result = Returned(PyStr(Text_malformed))

\* A value of the JSON data model: object, array, string, number, boolean
\* or null.
RECURSIVE JsonNative(_)
JsonNative(v) ==
  CASE v.t = "list" -> \A k \in 1..Len(v.items) : JsonNative(v.items[k])
    [] v.t = "dict" -> \A k \in 1..Len(v.pairs) : JsonNative(v.pairs[k][2])
    [] v.t \in {"tuple", "Promise"} -> FALSE
    [] OTHER -> TRUE

\* C7: every JSON value v, a string included, that is encoded on write,
\* stored, fetched through the registered decoder and passed through
\* to_python comes back equal to v, with its structure and type.
C7_RoundTrip ==
  (pc = "fetched" /\ call.op = "get_db_prep_value" /\ JsonNative(call.value)) =>
    result.exc = "none" /\ PyEq(obj, call.value)

\* A name of the form at_<key>: at_ and then a key that starts a word.
AtKeyForm(name) ==
  /\ Len(name) > 3
  /\ name[1] = "a" /\ name[2] = "t" /\ name[3] = "_"
  /\ name[4] \in WordChars

\* C8: get_transform returns the transform the framework resolves for the
\* name when there is one; otherwise the key transform of exactly the text
\* after at_ for a name of the form at_<key>, and no transform for any other
\* name.
C8_GetTransform ==
  Called("get_transform") =>
    /\ result.exc = "none"
    /\ IF ~IsNone(call.framework) THEN result.value = call.framework
       ELSE IF AtKeyForm(call.name)
       THEN result.value =
              KeyTransformFactory(SubSeq(call.name, 4, Len(call.name)), field)
       ELSE result.value = PyNone

C8_Witness ==
  /\ Called("get_transform")
  /\ IsNone(call.framework)
  /\ call.name = <<"a", "t", "_", "f", "o", "o", "_", "0">>
  /\ result.value.t = "KeyTransformFactory"
  /\ result.value.key = <<"f", "o", "o", "_", "0">>

\* C9: get_db_prep_value returns None exactly when the value the preparation
\* hook returns is None and the field allows null; in every other case,
\* None on a field that does not allow null included, it returns a
\* JsonAdapter of the prepared value, which is then written as JSON text and
\* not as NULL.
C9_DbPrepValue ==
  (call.op = "get_db_prep_value" /\ pc \in {"prepped", "stored"}) =>
    LET prepped == Field_get_db_prep_value(call.value, call.prepared)
    IN /\ result.exc = "none"
       /\ IF field.null /\ IsNone(prepped) THEN result.value = PyNone
          ELSE result.value = JsonAdapter(prepped)
       /\ (pc = "stored" /\ IsNone(prepped)) =>
            IF field.null THEN row = SqlNull
            ELSE row = SqlText(<<"n", "u", "l", "l">>)

C9_Witness ==
  /\ call.op = "get_db_prep_value" /\ pc = "stored"
  /\ ~field.null
  /\ call.value = PyPromise(PyNone) /\ ~call.prepared
  /\ result.value = JsonAdapter(PyNone)
  /\ row = SqlText(<<"n", "u", "l", "l">>)

\* C10: get_prep_lookup is idempotent: preparing the value a successful call
\* returned succeeds and returns an equal value; and for a lookup type other
\* than jcontains, jhas, jhas_any and jhas_all the value is returned unchanged
\* and nothing is raised.
C10_Idempotent ==
  /\ (Called("get_prep_lookup") /\ call.again) =>
       result.exc = "none" /\ PyEq(result.value, prev.value)
  /\ (Called("get_prep_lookup") /\ ~call.again
        /\ call.lookup_type \notin {"jcontains", "jhas", "jhas_any", "jhas_all"}) =>
       result = Returned(call.value)

C10_Witness ==
  /\ Called("get_prep_lookup") /\ call.again
  /\ call.lookup_type = "jhas_any"
  /\ prev.value = PyList(<<PyStr(<<"a">>), PyStr(<<"1">>)>>)
  /\ result = prev

====
